---- MODULE Spec2Model ----
(***************************************************************************)
(* SpaceMouseListener (spacemouse_hid.py) and the add-in entry points that *)
(* drive it (SpaceMouseDrawingMode.py).                                    *)
(*                                                                         *)
(* Two threads: the host's main thread (start, stop, the workspace         *)
(* handler, apply_settings) and the listener thread SMHIDThread (_run).    *)
(* The listener thread is modelled statement by statement wherever it      *)
(* reads or writes a field the main thread also touches.                   *)
(*                                                                         *)
(* Numbers.  PAN_SCALE and ZOOM_SCALE are Python floats with two decimal   *)
(* places in every setting used here; they are held as integers in         *)
(* hundredths (0.08 is 8).  zoom and zoom_acc are held in hundredths of a  *)
(* wheel unit (30.0 is 3000).  On the axis values and settings used below  *)
(* every product and sum is exactly representable in binary floating       *)
(* point or truncates to the same integer, so the integer arithmetic       *)
(* agrees with the float arithmetic of the source.                         *)
(***************************************************************************)
EXTENDS Integers, Sequences, FiniteSets, TLC

VARIABLES
    \* ---- SpaceMouseListener instance fields (__init__, lines 137-145)
    drawing_mode,   \* self.drawing_mode
    running,        \* self._running
    thread,         \* self._thread is not None
    hwnd,           \* self._hwnd: 0 is None, 1 is the window handle
    mid_held,       \* self._mid_held
    zoom_acc,       \* self._zoom_acc, in hundredths
    \* ---- SpaceMouseListener class attributes (lines 133-135)
    PAN_SCALE,      \* in hundredths
    ZOOM_SCALE,     \* in hundredths
    DEAD_ZONE,
    \* ---- operating system state owned by the listener thread
    window,         \* the message-only window exists
    registered,     \* the raw-input registration exists
    destroyPosted,  \* a WM_DESTROY posted by stop() waits in the queue
    quitPosted,     \* PostQuitMessage was called: GetMessageW will return 0
    \* ---- listener thread: position and locals
    tpc,            \* position of SMHIDThread
    msg,            \* the MSG being dispatched; x, y, z are the arguments of
                    \* _apply once _on_raw_input has decoded them
    buf,            \* the RAWINPUT data GetRawInputData yields for the MSG
    dz, pan_x, pan_y, zoom,   \* locals of _apply
    \* ---- main thread: position inside stop()
    mpc,
    \* ---- observation (history) variables, not program state
    out,            \* INPUTs sent by the listener thread for the current MSG
    lastBtn,        \* last button event sent by anyone: "none", "down", "up"
    owed,           \* zoom contributions so far minus scroll amounts sent
    held0, acc0,    \* mid_held and zoom_acc when _apply was entered
    streak,         \* consecutive (0,-200,0) reports under default settings
    streakHeld,     \* mid_held when the streak began
    stopHeld,       \* "held": stop() was called with the button down and
                    \* _mid_held true; "free": called otherwise; "no": not called
    relSinceStop,   \* MIDDLEUPs sent since stop() was called
    exitBy,         \* how the current thread ended: "setup" (a failed call
                    \* before the loop), "loop" (after the loop), else "none"
    idle0,          \* stop() was called on a listener without a live thread:
                    \* never started, or stopped before and its thread ended
    fresh           \* no report has reached _apply since the last start()

prog == <<drawing_mode, running, thread, hwnd, mid_held, zoom_acc,
          PAN_SCALE, ZOOM_SCALE, DEAD_ZONE>>
os == <<window, registered, destroyPosted, quitPosted>>
locals == <<msg, buf, dz, pan_x, pan_y, zoom>>
hist == <<out, lastBtn, owed, held0, acc0,
          streak, streakHeld, stopHeld, relSinceStop, exitBy, idle0, fresh>>
\* The history variables a SendInput call leaves alone
histRest == <<held0, acc0, streak, streakHeld, stopHeld, exitBy, idle0,
              fresh>>
\* The history variables the thread leaves alone outside _wnd_proc
histLive == <<out, lastBtn, owed, held0, acc0,
              streak, streakHeld, stopHeld, relSinceStop, idle0, fresh>>
vars == <<prog, os, tpc, locals, mpc, hist>>

----------------------------------------------------------------------------
\* Constants of the source

ONE_TICK == 120

RIM_TYPEHID == 2

\* One wheel unit in hundredths
TickH == ONE_TICK * 100

DefaultSettings == [PAN_SCALE |-> 8, ZOOM_SCALE |-> 15, DEAD_ZONE |-> 25]

----------------------------------------------------------------------------
\* Bounds of the model

\* Largest |y| of a report, in hundreds of raw units
MaxY == 2

AxisX == {-45, 0, 100}
AxisY == {100 * k : k \in (-MaxY)..MaxY} \cup {24}
AxisZ == {0, 45}

\* Settings the dialog can push while running: the defaults and one other
SettingsSet == {DefaultSettings,
                [PAN_SCALE |-> 50, ZOOM_SCALE |-> 150, DEAD_ZONE |-> 100]}

NoMsg == [type |-> "none", x |-> 0, y |-> 0, z |-> 0]
InputMsg(x, y, z) == [type |-> "WM_INPUT", x |-> x, y |-> y, z |-> z]
DestroyMsg == [type |-> "WM_DESTROY", x |-> 0, y |-> 0, z |-> 0]
OtherMsg == [type |-> "OTHER", x |-> 0, y |-> 0, z |-> 0]

----------------------------------------------------------------------------
\* Pure helpers

Abs(v) == IF v < 0 THEN -v ELSE v

\* Variant of IntOfHundredths: floor division (Python //) in place of int()
FloorOfHundredths(n) == n \div 100

\* Python int() of the float n/100: truncation toward zero
IntOfHundredths(n) == IF n >= 0 THEN n \div 100 ELSE -((-n) \div 100)


\* Variant of Pan: `abs(v) > dz`, the boundary value is filtered too
PanStrict(v, deadzone, scale) ==
    IF Abs(v) > deadzone THEN IntOfHundredths(v * scale) ELSE 0

\* _apply lines 314-315: int(v * PAN_SCALE) if abs(v) >= dz else 0
Pan(v, deadzone, scale) ==
    IF Abs(v) >= deadzone THEN IntOfHundredths(v * scale) ELSE 0

\* _apply line 316: (-y * ZOOM_SCALE) if abs(y) >= dz else 0.0, in hundredths
Zoom(y, deadzone, scale) ==
    IF Abs(y) >= deadzone THEN (-y) * scale ELSE 0

\* _make: the INPUT structure.  mouseData holds the signed wheel amount that
\* the DWORD c_uint32(data).value encodes.
Make(flags, dx, dy, data) ==
    [dwFlags |-> flags, dx |-> dx, dy |-> dy, mouseData |-> data]

\* Variant of ScrollLoop: `if` in place of `while`, at most one tick a report
ScrollOnce(acc) ==
    IF Abs(acc) >= TickH
    THEN LET tick == IF acc > 0 THEN ONE_TICK ELSE -ONE_TICK
         IN  [acc |-> acc - tick * 100, sent |-> <<Make("WHEEL", 0, 0, tick)>>]
    ELSE [acc |-> acc, sent |-> <<>>]

\* Variant of ScrollLoop: the residue is dropped once a tick was sent
RECURSIVE ScrollLoopReset(_)
ScrollLoopReset(acc) ==
    IF Abs(acc) >= TickH
    THEN LET tick == IF acc > 0 THEN ONE_TICK ELSE -ONE_TICK
             rest == ScrollLoopReset(acc - tick * 100)
         IN  [acc |-> 0,
              sent |-> <<Make("WHEEL", 0, 0, tick)>> \o rest.sent]
    ELSE [acc |-> acc, sent |-> <<>>]

\* Variant of ScrollLoop: `while abs(acc) > 120`, a full unit is kept back
RECURSIVE ScrollLoopStrict(_)
ScrollLoopStrict(acc) ==
    IF Abs(acc) > TickH
    THEN LET tick == IF acc > 0 THEN ONE_TICK ELSE -ONE_TICK
             rest == ScrollLoopStrict(acc - tick * 100)
         IN  [acc |-> rest.acc,
              sent |-> <<Make("WHEEL", 0, 0, tick)>> \o rest.sent]
    ELSE [acc |-> acc, sent |-> <<>>]

\* _apply lines 327-330: the while loop, returning the INPUTs it sends and
\* the accumulator it leaves
RECURSIVE ScrollLoop(_)
ScrollLoop(acc) ==
    IF Abs(acc) >= TickH
    THEN LET tick == IF acc > 0 THEN ONE_TICK ELSE -ONE_TICK
             rest == ScrollLoop(acc - tick * 100)
         IN  [acc |-> rest.acc,
              sent |-> <<Make("WHEEL", 0, 0, tick)>> \o rest.sent]
    ELSE [acc |-> acc, sent |-> <<>>]

----------------------------------------------------------------------------
\* RAWINPUT data and its decoding (_on_raw_input)

\* What GetRawInputData yields for the lparam of a WM_INPUT.  status is
\* "nosize" when the first call reports size 0 and "error" when the second
\* call returns 0xFFFFFFFF.  rawhid tells whether the buffer reaches past the
\* header by the 8 bytes of dwSizeHid and dwCount.  bRawData is the bytes the
\* buffer holds after them; a well-formed buffer holds dwSizeHid * dwCount.
RawInput(status, dwType, rawhid, dwSizeHid, dwCount, bRawData) ==
    [status |-> status, dwType |-> dwType, rawhid |-> rawhid,
     dwSizeHid |-> dwSizeHid, dwCount |-> dwCount, bRawData |-> bRawData]

NoBuf == RawInput("none", 0, FALSE, 0, 0, <<>>)

HidInput(dwSizeHid, dwCount, bRawData) ==
    RawInput("ok", RIM_TYPEHID, TRUE, dwSizeHid, dwCount, bRawData)

\* The device's encoding of one axis: a signed 16-bit value as two bytes,
\* low byte first (two's complement)
Pack_h(v) == <<(v % 65536) % 256, (v % 65536) \div 256>>

\* The report layout [id, X_lo, X_hi, Y_lo, Y_hi, Z_lo, Z_hi]
Report(id, x, y, z) == <<id>> \o Pack_h(x) \o Pack_h(y) \o Pack_h(z)

\* Variant of Unpack_h: the two bytes read as unsigned ('<H')
Unpack_H(lo, hi) == lo + 256 * hi

\* struct.unpack '<h': two bytes, low byte first, as a signed 16-bit value
Unpack_h(lo, hi) ==
    LET u == lo + 256 * hi
    IN  IF u >= 32768 THEN u - 65536 ELSE u

\* _on_raw_input returns without calling _apply
Ignore == [apply |-> FALSE, x |-> 0, y |-> 0, z |-> 0]

\* Variant of OnRawInput: the report id is not examined
OnRawInputAnyId(b) ==
    IF b.status # "ok" THEN Ignore
    ELSE IF b.dwType # RIM_TYPEHID THEN Ignore
    ELSE IF ~b.rawhid THEN Ignore
    ELSE IF b.dwCount = 0 \/ b.dwSizeHid < 7 THEN Ignore
    ELSE LET n == IF b.dwSizeHid < Len(b.bRawData)
                  THEN b.dwSizeHid ELSE Len(b.bRawData)
             hid == SubSeq(b.bRawData, 1, n)
         IN  IF Len(hid) < 7 THEN Ignore
             ELSE [apply |-> TRUE,
                   x |-> Unpack_h(hid[2], hid[3]),
                   y |-> Unpack_h(hid[4], hid[5]),
                   z |-> Unpack_h(hid[6], hid[7])]

\* _on_raw_input lines 272-306: whether _apply is called, and with which
\* x, y, z.  hid is the slice buf.raw[off : off + dw_size_hid], which ends
\* where the buffer ends.
OnRawInput(b) ==
    IF b.status # "ok" THEN Ignore
    ELSE IF b.dwType # RIM_TYPEHID THEN Ignore
    ELSE IF ~b.rawhid THEN Ignore
    ELSE IF b.dwCount = 0 \/ b.dwSizeHid < 7 THEN Ignore
    ELSE LET n == IF b.dwSizeHid < Len(b.bRawData)
                  THEN b.dwSizeHid ELSE Len(b.bRawData)
             hid == SubSeq(b.bRawData, 1, n)
         IN  IF Len(hid) < 7 THEN Ignore
             ELSE IF hid[1] = 1
                  THEN [apply |-> TRUE,
                        x |-> Unpack_h(hid[2], hid[3]),
                        y |-> Unpack_h(hid[4], hid[5]),
                        z |-> Unpack_h(hid[6], hid[7])]
                  ELSE Ignore

\* What the registered device delivers while the listener runs: translation
\* reports, a rotation report (id 2) and a raw input that is not of HID type
RawInputs ==
    {HidInput(7, 1, Report(1, x, y, z)) : x \in AxisX, y \in AxisY, z \in AxisZ}
    \cup {HidInput(7, 1, Report(2, 100, -200, 45)),
          RawInput("ok", 0, TRUE, 7, 1, Report(1, 100, -200, 45))}

----------------------------------------------------------------------------
\* History bookkeeping for SendInput calls

RECURSIVE SumData(_)
SumData(seq) ==
    IF seq = <<>> THEN 0 ELSE Head(seq).mouseData + SumData(Tail(seq))

\* The history variables after `seq` was handed to SendInput
Sent(seq, byListener) ==
    LET downs == {i \in 1..Len(seq) : seq[i].dwFlags = "MIDDLEDOWN"}
        ups   == {i \in 1..Len(seq) : seq[i].dwFlags = "MIDDLEUP"}
    IN  /\ out' = IF byListener THEN out \o seq ELSE out
        /\ lastBtn' = IF downs # {} THEN "down"
                      ELSE IF ups # {} THEN "up" ELSE lastBtn
        /\ owed' = owed - 100 * SumData(seq)
        /\ relSinceStop' = IF ups # {} /\ stopHeld # "no"
                           THEN relSinceStop + 1 ELSE relSinceStop

NoSend == UNCHANGED <<out, lastBtn, owed, relSinceStop>>

----------------------------------------------------------------------------
\* Initial state: SpaceMouseListener.__init__ with the class attributes

Init ==
    /\ drawing_mode = FALSE
    /\ running = FALSE
    /\ thread = FALSE
    /\ hwnd = 0
    /\ mid_held = FALSE
    /\ zoom_acc = 0
    /\ PAN_SCALE = DefaultSettings.PAN_SCALE
    /\ ZOOM_SCALE = DefaultSettings.ZOOM_SCALE
    /\ DEAD_ZONE = DefaultSettings.DEAD_ZONE
    /\ window = FALSE
    /\ registered = FALSE
    /\ destroyPosted = FALSE
    /\ quitPosted = FALSE
    /\ tpc = "none"
    /\ msg = NoMsg
    /\ buf = NoBuf
    /\ dz = 0 /\ pan_x = 0 /\ pan_y = 0 /\ zoom = 0
    /\ mpc = "idle"
    /\ out = <<>>
    /\ lastBtn = "none"
    /\ owed = 0
    /\ held0 = FALSE /\ acc0 = 0
    /\ streak = 0 /\ streakHeld = FALSE
    /\ stopHeld = "no"
    /\ relSinceStop = 0
    /\ exitBy = "none"
    /\ idle0 = FALSE
    /\ fresh = FALSE

----------------------------------------------------------------------------
\* Main thread

\* start(): a new SMHIDThread with its own, empty message queue.  The caller
\* starts a listener only when no listener thread of it is alive.
start ==
    /\ mpc = "idle"
    /\ tpc \in {"none", "exited"}
    /\ running' = TRUE
    /\ thread' = TRUE
    /\ tpc' = "RegisterClassW"
    /\ destroyPosted' = FALSE
    /\ quitPosted' = FALSE
    /\ stopHeld' = "no"
    /\ relSinceStop' = 0
    /\ exitBy' = "none"
    /\ idle0' = FALSE
    /\ fresh' = TRUE
    /\ UNCHANGED <<drawing_mode, hwnd, mid_held, zoom_acc,
                   PAN_SCALE, ZOOM_SCALE, DEAD_ZONE, window, registered,
                   locals, mpc, out, lastBtn, owed,
                   held0, acc0, streak, streakHeld>>

\* WorkspaceActivatedHandler.notify: listener.drawing_mode = is_drawing
notify ==
    /\ mpc = "idle"
    /\ \E is_drawing \in BOOLEAN : drawing_mode' = is_drawing
    /\ UNCHANGED <<running, thread, hwnd, mid_held, zoom_acc,
                   PAN_SCALE, ZOOM_SCALE, DEAD_ZONE, os, tpc, locals, mpc, hist>>

\* Variant of apply_settings_to: new settings also reset the converter
apply_settings_reset(settings) ==
    /\ mpc = "idle"
    /\ PAN_SCALE' = settings.PAN_SCALE
    /\ ZOOM_SCALE' = settings.ZOOM_SCALE
    /\ DEAD_ZONE' = settings.DEAD_ZONE
    /\ mid_held' = FALSE
    /\ zoom_acc' = 0
    /\ UNCHANGED <<drawing_mode, running, thread, hwnd,
                   os, tpc, locals, mpc, hist>>

\* apply_settings(settings) lines 85-87: the three class attributes
apply_settings_to(settings) ==
    /\ mpc = "idle"
    /\ PAN_SCALE' = settings.PAN_SCALE
    /\ ZOOM_SCALE' = settings.ZOOM_SCALE
    /\ DEAD_ZONE' = settings.DEAD_ZONE
    /\ UNCHANGED <<drawing_mode, running, thread, hwnd, mid_held, zoom_acc,
                   os, tpc, locals, mpc, hist>>

\* apply_settings(settings), called by the settings dialog with values it
\* has validated
apply_settings == \E settings \in SettingsSet : apply_settings_to(settings)

\* stop() line 155: self._running = False
stop_running ==
    /\ mpc = "idle"
    /\ running' = FALSE
    /\ mpc' = "stop_hwnd"
    /\ stopHeld' = IF mid_held /\ lastBtn = "down" THEN "held" ELSE "free"
    /\ relSinceStop' = 0
    /\ idle0' = (tpc = "none" \/ (tpc = "exited" /\ stopHeld # "no"))
    /\ UNCHANGED <<drawing_mode, thread, hwnd, mid_held, zoom_acc,
                   PAN_SCALE, ZOOM_SCALE, DEAD_ZONE, os, tpc, locals,
                   out, lastBtn, owed, held0, acc0,
                   streak, streakHeld, exitBy, fresh>>

\* Variant of stop_post: no WM_DESTROY is posted
stop_post_none ==
    /\ mpc = "stop_hwnd"
    /\ mpc' = "stop_join"
    /\ UNCHANGED <<prog, os, tpc, locals, hist>>

\* stop() lines 156-159: hwnd = self._hwnd; if hwnd: PostMessageW(WM_DESTROY)
stop_post ==
    /\ mpc = "stop_hwnd"
    /\ destroyPosted' = IF hwnd # 0 THEN TRUE ELSE destroyPosted
    /\ mpc' = "stop_join"
    /\ UNCHANGED <<prog, window, registered, quitPosted, tpc, locals, hist>>

\* stop() lines 160-161: join returns because there is no thread or the
\* thread has ended
stop_join ==
    /\ mpc = "stop_join"
    /\ (~thread \/ tpc = "exited")
    /\ mpc' = "stop_held"
    /\ UNCHANGED <<prog, os, tpc, locals, hist>>

\* stop() line 161: join(timeout=3.0) gives up while the thread is alive
stop_join_timeout ==
    /\ mpc = "stop_join"
    /\ thread /\ tpc # "exited"
    /\ mpc' = "stop_held"
    /\ UNCHANGED <<prog, os, tpc, locals, hist>>

\* stop() line 162: if self._mid_held
stop_held ==
    /\ mpc = "stop_held"
    /\ mpc' = IF mid_held THEN "stop_release_send" ELSE "idle"
    /\ UNCHANGED <<prog, os, tpc, locals, hist>>

\* _release_middle line 356, called from stop()
stop_release_send ==
    /\ mpc = "stop_release_send"
    /\ Sent(<<Make("MIDDLEUP", 0, 0, 0)>>, FALSE)
    /\ mpc' = "stop_release_set"
    /\ UNCHANGED <<prog, os, tpc, locals, histRest>>

\* _release_middle line 357, called from stop()
stop_release_set ==
    /\ mpc = "stop_release_set"
    /\ mid_held' = FALSE
    /\ mpc' = "idle"
    /\ UNCHANGED <<drawing_mode, running, thread, hwnd, zoom_acc,
                   PAN_SCALE, ZOOM_SCALE, DEAD_ZONE, os, tpc, locals, hist>>

----------------------------------------------------------------------------
\* Listener thread: _run -> _message_loop

\* lines 187-192: RegisterClassW; a failure other than 1410 returns
RegisterClassW ==
    /\ tpc = "RegisterClassW"
    /\ \E ok \in BOOLEAN :
          /\ tpc' = IF ok THEN "CreateWindowExW" ELSE "exited"
          /\ exitBy' = IF ok THEN exitBy ELSE "setup"
    /\ UNCHANGED <<prog, os, locals, mpc, histLive>>

\* lines 196-204: CreateWindowExW; on success self._hwnd = hwnd
CreateWindowExW ==
    /\ tpc = "CreateWindowExW"
    /\ \E ok \in BOOLEAN :
          IF ok
          THEN /\ window' = TRUE
               /\ hwnd' = 1
               /\ tpc' = "RegisterRawInputDevices"
               /\ UNCHANGED exitBy
          ELSE /\ UNCHANGED <<window, hwnd>>
               /\ tpc' = "exited"
               /\ exitBy' = "setup"
    /\ UNCHANGED <<drawing_mode, running, thread, mid_held, zoom_acc,
                   PAN_SCALE, ZOOM_SCALE, DEAD_ZONE, registered,
                   destroyPosted, quitPosted, locals, mpc, histLive>>

\* lines 214-219: RegisterRawInputDevices(RIDEV_INPUTSINK); a failure returns
RegisterRawInputDevices ==
    /\ tpc = "RegisterRawInputDevices"
    /\ \E ok \in BOOLEAN :
          IF ok
          THEN /\ registered' = TRUE
               /\ tpc' = "while"
               /\ UNCHANGED exitBy
          ELSE /\ UNCHANGED registered
               /\ tpc' = "exited"
               /\ exitBy' = "setup"
    /\ UNCHANGED <<prog, window, destroyPosted, quitPosted, locals, mpc,
                   histLive>>

\* line 224: while self._running
while_running ==
    /\ tpc = "while"
    /\ tpc' = IF running THEN "GetMessageW" ELSE "cleanup"
    /\ UNCHANGED <<prog, os, locals, mpc, hist>>

\* line 226: GetMessageW returns a WM_INPUT of the registered device.
\* GetMessageW hands out posted messages and WM_QUIT before input messages.
GetMessage_input ==
    /\ tpc = "GetMessageW"
    /\ registered
    /\ ~destroyPosted /\ ~quitPosted
    /\ msg' = InputMsg(0, 0, 0)
    /\ \E b \in RawInputs : buf' = b
    /\ tpc' = "DispatchMessageW"
    /\ UNCHANGED <<prog, os, dz, pan_x, pan_y, zoom, mpc, hist>>

\* line 226: GetMessageW returns the WM_DESTROY posted by stop()
GetMessage_destroy ==
    /\ tpc = "GetMessageW"
    /\ destroyPosted
    /\ destroyPosted' = FALSE
    /\ msg' = DestroyMsg
    /\ tpc' = "DispatchMessageW"
    /\ UNCHANGED <<prog, window, registered, quitPosted,
                   buf, dz, pan_x, pan_y, zoom, mpc, hist>>

\* line 226: GetMessageW returns any other message of the thread
GetMessage_other ==
    /\ tpc = "GetMessageW"
    /\ msg' = OtherMsg
    /\ tpc' = "DispatchMessageW"
    /\ UNCHANGED <<prog, os, buf, dz, pan_x, pan_y, zoom, mpc, hist>>

\* lines 226-228: GetMessageW returns 0 (a WM_QUIT is pending) or -1 (error):
\* break.  stop() clears _running before it posts WM_DESTROY, so the loop
\* head ends the loop before a pending WM_QUIT is ever fetched.
GetMessage_break ==
    /\ tpc = "GetMessageW"
    /\ \E r \in {0, -1} :
          /\ r = 0 => quitPosted
          /\ quitPosted' = IF r = 0 THEN FALSE ELSE quitPosted
    /\ tpc' = "cleanup"
    /\ UNCHANGED <<prog, window, registered, destroyPosted, locals, mpc, hist>>

\* Variant of wnd_proc_input: drawing_mode is not consulted
wnd_proc_input_ungated ==
    /\ tpc = "DispatchMessageW"
    /\ msg.type = "WM_INPUT"
    /\ tpc' = "_on_raw_input"
    /\ out' = <<>>
    /\ UNCHANGED <<prog, os, locals, mpc, lastBtn,
                   owed, relSinceStop, histRest>>

\* _wnd_proc lines 250-253, WM_INPUT: the gate, then _on_raw_input
wnd_proc_input ==
    /\ tpc = "DispatchMessageW"
    /\ msg.type = "WM_INPUT"
    /\ tpc' = IF drawing_mode THEN "_on_raw_input" ELSE "return"
    /\ out' = <<>>
    /\ UNCHANGED <<prog, os, locals, mpc, lastBtn,
                   owed, relSinceStop, histRest>>

\* _wnd_proc lines 254-256, WM_DESTROY: PostQuitMessage(0)
wnd_proc_destroy ==
    /\ tpc = "DispatchMessageW"
    /\ msg.type = "WM_DESTROY"
    /\ quitPosted' = TRUE
    /\ tpc' = "return"
    /\ out' = <<>>
    /\ UNCHANGED <<prog, window, registered, destroyPosted, locals, mpc,
                   lastBtn, owed, relSinceStop, histRest>>

\* _wnd_proc lines 257-260: DefWindowProcW
wnd_proc_default ==
    /\ tpc = "DispatchMessageW"
    /\ msg.type = "OTHER"
    /\ tpc' = "return"
    /\ out' = <<>>
    /\ UNCHANGED <<prog, os, locals, mpc, lastBtn,
                   owed, relSinceStop, histRest>>

\* _on_raw_input lines 267-306: fetch and decode the report, call _apply
on_raw_input ==
    /\ tpc = "_on_raw_input"
    /\ LET r == OnRawInput(buf)
       IN  IF r.apply
           THEN /\ msg' = InputMsg(r.x, r.y, r.z)
                /\ tpc' = "_apply"
           ELSE /\ UNCHANGED msg
                /\ tpc' = "return"
    /\ UNCHANGED <<prog, os, buf, dz, pan_x, pan_y, zoom, mpc, hist>>

\* The zoom contribution of a report as the specification words it:
\* -y * zoom_scale for a y that passes the dead-zone filter (hundredths)
Contribution(y, deadzone, scale) ==
    IF Abs(y) < deadzone THEN 0 ELSE -(y * scale)

\* The scenario report (0, -200, 0) under dead_zone 25 and zoom_scale 0.15
IsScenario ==
    /\ msg.x = 0 /\ msg.y = -200 /\ msg.z = 0
    /\ DEAD_ZONE = 25 /\ ZOOM_SCALE = 15

\* Variant of apply_read: the values the class was defined with are used, as
\* if the listener had kept a copy of its own
apply_read_defaults ==
    /\ tpc = "_apply"
    /\ dz' = DefaultSettings.DEAD_ZONE
    /\ pan_x' = Pan(msg.x, DefaultSettings.DEAD_ZONE, DefaultSettings.PAN_SCALE)
    /\ pan_y' = Pan(msg.z, DefaultSettings.DEAD_ZONE, DefaultSettings.PAN_SCALE)
    /\ zoom' = Zoom(msg.y, DefaultSettings.DEAD_ZONE, DefaultSettings.ZOOM_SCALE)
    /\ tpc' = "pan"
    /\ held0' = mid_held
    /\ acc0' = zoom_acc
    /\ owed' = owed + Contribution(msg.y, DEAD_ZONE, ZOOM_SCALE)
    /\ streak' = 0
    /\ streakHeld' = FALSE
    /\ fresh' = FALSE
    /\ UNCHANGED <<prog, os, msg, buf, mpc, out, lastBtn,
                   relSinceStop, stopHeld, exitBy, idle0>>

\* _apply lines 313-316: dz, pan_x, pan_y, zoom
apply_read ==
    /\ tpc = "_apply"
    /\ dz' = DEAD_ZONE
    /\ pan_x' = Pan(msg.x, DEAD_ZONE, PAN_SCALE)
    /\ pan_y' = Pan(msg.z, DEAD_ZONE, PAN_SCALE)
    /\ zoom' = Zoom(msg.y, DEAD_ZONE, ZOOM_SCALE)
    /\ tpc' = "pan"
    /\ held0' = mid_held
    /\ acc0' = zoom_acc
    /\ owed' = owed + Contribution(msg.y, DEAD_ZONE, ZOOM_SCALE)
    /\ streak' = IF ~IsScenario THEN 0
                 ELSE IF streak \in 1..3 THEN streak + 1
                 ELSE IF zoom_acc = 0 THEN 1 ELSE 0
    /\ streakHeld' = IF ~IsScenario THEN FALSE
                     ELSE IF streak \in 1..3 THEN streakHeld
                     ELSE IF zoom_acc = 0 THEN mid_held ELSE FALSE
    /\ fresh' = FALSE
    /\ UNCHANGED <<prog, os, msg, buf, mpc, out, lastBtn,
                   relSinceStop, stopHeld, exitBy, idle0>>

\* Variant of apply_pan: the press is not guarded by `not self._mid_held`
apply_pan_press_unguarded ==
    /\ tpc = "pan"
    /\ tpc' = IF pan_x # 0 \/ pan_y # 0
              THEN "_press_middle"
              ELSE (IF mid_held THEN "_release_middle" ELSE "zoom")
    /\ UNCHANGED <<prog, os, locals, mpc, hist>>

\* Variant of apply_pan: `else` in place of `elif self._mid_held`
apply_pan_release_unguarded ==
    /\ tpc = "pan"
    /\ tpc' = IF pan_x # 0 \/ pan_y # 0
              THEN (IF ~mid_held THEN "_press_middle" ELSE "_move")
              ELSE "_release_middle"
    /\ UNCHANGED <<prog, os, locals, mpc, hist>>

\* _apply lines 318, 319, 322: which pan branch runs
apply_pan ==
    /\ tpc = "pan"
    /\ tpc' = IF pan_x # 0 \/ pan_y # 0
              THEN (IF ~mid_held THEN "_press_middle" ELSE "_move")
              ELSE (IF mid_held THEN "_release_middle" ELSE "zoom")
    /\ UNCHANGED <<prog, os, locals, mpc, hist>>

\* _press_middle line 352: SendInput(MIDDLEDOWN)
press_send ==
    /\ tpc = "_press_middle"
    /\ Sent(<<Make("MIDDLEDOWN", 0, 0, 0)>>, TRUE)
    /\ tpc' = "_press_middle_set"
    /\ UNCHANGED <<prog, os, locals, mpc, histRest>>

\* _press_middle line 353: self._mid_held = True
press_set ==
    /\ tpc = "_press_middle_set"
    /\ mid_held' = TRUE
    /\ tpc' = "_move"
    /\ UNCHANGED <<drawing_mode, running, thread, hwnd, zoom_acc,
                   PAN_SCALE, ZOOM_SCALE, DEAD_ZONE, os, locals, mpc, hist>>

\* _apply line 321, _move line 360: SendInput(MOVE, pan_x, pan_y)
move ==
    /\ tpc = "_move"
    /\ Sent(<<Make("MOVE", pan_x, pan_y, 0)>>, TRUE)
    /\ tpc' = "zoom"
    /\ UNCHANGED <<prog, os, locals, mpc, histRest>>

\* _release_middle line 356: SendInput(MIDDLEUP)
release_send ==
    /\ tpc = "_release_middle"
    /\ Sent(<<Make("MIDDLEUP", 0, 0, 0)>>, TRUE)
    /\ tpc' = "_release_middle_set"
    /\ UNCHANGED <<prog, os, locals, mpc, histRest>>

\* _release_middle line 357: self._mid_held = False
release_set ==
    /\ tpc = "_release_middle_set"
    /\ mid_held' = FALSE
    /\ tpc' = "zoom"
    /\ UNCHANGED <<drawing_mode, running, thread, hwnd, zoom_acc,
                   PAN_SCALE, ZOOM_SCALE, DEAD_ZONE, os, locals, mpc, hist>>

\* Variant of apply_zoom: `elif zoom`, a report that pans does not zoom
apply_zoom_exclusive ==
    /\ tpc = "zoom"
    /\ IF zoom # 0 /\ pan_x = 0 /\ pan_y = 0
       THEN LET r == ScrollLoop(zoom_acc + zoom)
            IN  /\ zoom_acc' = r.acc
                /\ Sent(r.sent, TRUE)
       ELSE /\ UNCHANGED zoom_acc
            /\ NoSend
    /\ tpc' = "return"
    /\ UNCHANGED <<drawing_mode, running, thread, hwnd, mid_held,
                   PAN_SCALE, ZOOM_SCALE, DEAD_ZONE, os, locals, mpc, histRest>>

\* _apply lines 325-330: accumulate the zoom and send the whole wheel ticks
apply_zoom ==
    /\ tpc = "zoom"
    /\ IF zoom # 0
       THEN LET r == ScrollLoop(zoom_acc + zoom)
            IN  /\ zoom_acc' = r.acc
                /\ Sent(r.sent, TRUE)
       ELSE /\ UNCHANGED zoom_acc
            /\ NoSend
    /\ tpc' = "return"
    /\ UNCHANGED <<drawing_mode, running, thread, hwnd, mid_held,
                   PAN_SCALE, ZOOM_SCALE, DEAD_ZONE, os, locals, mpc, histRest>>

\* _wnd_proc returns (lines 253, 256, 260): back to the loop head
wnd_proc_return ==
    /\ tpc = "return"
    /\ tpc' = "while"
    /\ msg' = NoMsg
    /\ buf' = NoBuf
    /\ dz' = 0 /\ pan_x' = 0 /\ pan_y' = 0 /\ zoom' = 0
    /\ out' = <<>>
    /\ held0' = FALSE /\ acc0' = 0
    /\ UNCHANGED <<prog, os, mpc, lastBtn, owed,
                   relSinceStop, streak, streakHeld, stopHeld, exitBy, idle0,
                   fresh>>

\* lines 232-243: unregister the device, self._hwnd = None; _run returns
cleanup ==
    /\ tpc = "cleanup"
    /\ registered' = FALSE
    /\ hwnd' = 0
    /\ tpc' = "exited"
    /\ exitBy' = "loop"
    /\ UNCHANGED <<drawing_mode, running, thread, mid_held, zoom_acc,
                   PAN_SCALE, ZOOM_SCALE, DEAD_ZONE, window, destroyPosted,
                   quitPosted, locals, mpc, histLive>>

----------------------------------------------------------------------------
\* Specifications

\* The listener thread between GetMessageW and the return of _wnd_proc
Pipeline ==
    \/ GetMessage_input \/ GetMessage_other
    \/ wnd_proc_input \/ wnd_proc_default \/ on_raw_input
    \/ apply_read \/ apply_pan
    \/ press_send \/ press_set \/ move \/ release_send \/ release_set
    \/ apply_zoom \/ wnd_proc_return

Setup == RegisterClassW \/ CreateWindowExW \/ RegisterRawInputDevices

Stop ==
    \/ stop_running \/ stop_post \/ stop_join \/ stop_join_timeout
    \/ stop_held \/ stop_release_send \/ stop_release_set

Next ==
    \/ start \/ notify \/ apply_settings
    \/ Stop
    \/ Setup \/ while_running \/ Pipeline
    \/ GetMessage_destroy \/ GetMessage_break
    \/ wnd_proc_destroy \/ cleanup

\* Every behaviour of the listener and the two threads
Spec == Init /\ [][Next]_vars

\* A session in which stop() is not called: only the listener thread sends
NextRunning ==
    \/ start \/ notify \/ apply_settings
    \/ Setup \/ while_running \/ Pipeline
    \/ GetMessage_break \/ cleanup

SpecRunning == Init /\ [][NextRunning]_vars

\* Progress.  The statements of the listener thread other than GetMessageW:
\* the thread is a daemon thread the interpreter keeps scheduling, so none
\* of them is postponed forever.  GetMessageW blocks until a message
\* arrives; input and other messages may never arrive.
Statements ==
    \/ Setup \/ while_running
    \/ wnd_proc_input \/ wnd_proc_destroy \/ wnd_proc_default \/ on_raw_input
    \/ apply_read \/ apply_pan
    \/ press_send \/ press_set \/ move \/ release_send \/ release_set
    \/ apply_zoom \/ wnd_proc_return \/ cleanup

\* The reports of a session in which the puck is pushed sideways, pulled up
\* and let go
LiveInputs ==
    {HidInput(7, 1, Report(1, x, y, 0)) : x \in {0, 100}, y \in {0, -200}}

GetMessage_input_live == GetMessage_input /\ buf' \in LiveInputs

NextLive ==
    \/ start \/ notify \/ apply_settings
    \/ Stop
    \/ Statements
    \/ GetMessage_input_live \/ GetMessage_other
    \/ GetMessage_destroy \/ GetMessage_break

\* Every behaviour in which the thread keeps running its statements, a
\* stop() that was entered runs to its end, and GetMessageW hands out a
\* posted WM_DESTROY
SpecLive ==
    /\ Init /\ [][NextLive]_vars
    /\ WF_vars(Statements)
    /\ WF_vars(Stop)
    /\ WF_vars(GetMessage_destroy)

\* The decoder on its own.  _on_raw_input is a function of the buffer: the
\* listener is taken at the call of _on_raw_input (line 252) in a running
\* session, with the button held or not and any residue, and the buffer is
\* drawn from well-formed and malformed raw inputs, the extreme 16-bit values
\* among them.
DecodeAxis == {-32768, -256, -1, 0, 1, 255, 32767}

DecodeInputs ==
    LET R == Report(1, 100, -200, 45)
    IN  {HidInput(7, 1, Report(1, x, y, z)) :
             x \in DecodeAxis, y \in DecodeAxis, z \in DecodeAxis}
        \cup RawInputs
        \cup {HidInput(7, 1, Report(id, 100, -200, 45)) : id \in {0, 2, 3, 255}}
        \cup {RawInput("ok", t, TRUE, 7, 1, R) : t \in {0, 1}}
        \cup {RawInput("nosize", 0, FALSE, 0, 0, <<>>),
              RawInput("error", 0, FALSE, 0, 0, <<>>),
              RawInput("ok", RIM_TYPEHID, FALSE, 0, 0, <<>>)}
        \cup {HidInput(7, 0, <<>>), HidInput(6, 1, SubSeq(R, 1, 6))}
        \* truncated: fewer bytes than dwSizeHid * dwCount
        \cup {HidInput(7, 1, SubSeq(R, 1, 5)),
              HidInput(13, 1, R \o <<0>>),
              HidInput(7, 2, R)}
        \* well-formed, longer than the minimum
        \cup {HidInput(13, 1, R \o <<0, 0, 0, 0, 0, 0>>),
              HidInput(7, 2, R \o Report(2, 1, 2, 3))}

InitDecode ==
    /\ drawing_mode = TRUE
    /\ running = TRUE
    /\ thread = TRUE
    /\ hwnd = 1
    /\ mid_held \in BOOLEAN
    /\ zoom_acc \in {0, 3000}
    /\ PAN_SCALE = DefaultSettings.PAN_SCALE
    /\ ZOOM_SCALE = DefaultSettings.ZOOM_SCALE
    /\ DEAD_ZONE = DefaultSettings.DEAD_ZONE
    /\ window = TRUE
    /\ registered = TRUE
    /\ destroyPosted = FALSE
    /\ quitPosted = FALSE
    /\ tpc = "_on_raw_input"
    /\ msg = InputMsg(0, 0, 0)
    /\ buf \in DecodeInputs
    /\ dz = 0 /\ pan_x = 0 /\ pan_y = 0 /\ zoom = 0
    /\ mpc = "idle"
    /\ out = <<>>
    /\ lastBtn = IF mid_held THEN "down" ELSE "none"
    /\ owed = zoom_acc
    /\ held0 = FALSE /\ acc0 = 0
    /\ streak = 0 /\ streakHeld = FALSE
    /\ stopHeld = "no"
    /\ relSinceStop = 0
    /\ exitBy = "none"
    /\ idle0 = FALSE
    /\ fresh = FALSE

NextDecode == on_raw_input

SpecDecode == InitDecode /\ [][NextDecode]_vars

----------------------------------------------------------------------------
\* What one step hands to SendInput from the listener thread

SentNow ==
    IF Len(out') > Len(out) THEN SubSeq(out', Len(out) + 1, Len(out')) ELSE <<>>

Flags(seq) == {seq[i].dwFlags : i \in 1..Len(seq)}

Wheels(seq) == SelectSeq(seq, LAMBDA i : i.dwFlags = "WHEEL")

\* The listener thread is inside _apply, between line 313 and line 330
InApply ==
    tpc \in {"pan", "_press_middle", "_press_middle_set", "_move",
             "_release_middle", "_release_middle_set", "zoom"}

----------------------------------------------------------------------------
\* C1.  Press/release alternation of the converter: while only the listener
\* thread sends, a MIDDLEDOWN is never sent when the last button event was a
\* MIDDLEDOWN, a MIDDLEUP is sent only when the last button event was a
\* MIDDLEDOWN, and when _apply has finished a report _mid_held is true
\* exactly when the last button event sent is a MIDDLEDOWN.
C1_Alternation ==
    [][ /\ ("MIDDLEDOWN" \in Flags(SentNow) => lastBtn # "down")
        /\ ("MIDDLEUP" \in Flags(SentNow) => lastBtn = "down")
        /\ (tpc' \in {"zoom", "return", "while"}
               => (mid_held' <=> lastBtn' = "down")) ]_vars

\* A report released the button that an earlier report had pressed
C1_Witness ==
    /\ tpc = "return"
    /\ held0 /\ ~mid_held
    /\ lastBtn = "up"
    /\ Flags(out) = {"MIDDLEUP"}

\* C2.  stop() called while the button is held: once stop() has returned and
\* the listener thread has ended, exactly one MIDDLEUP was sent since the
\* call.
C2_ReleaseExactlyOnce ==
    (stopHeld = "held" /\ mpc = "idle" /\ tpc = "exited") => relSinceStop = 1

\* C3.  The residue is always less than one wheel unit: |zoom_acc| < 120.
C3_ResidueBelowTick ==
    Abs(zoom_acc) < TickH

\* A report whose zoom needed two ticks in one step and left a residue
C3_Witness ==
    /\ tpc = "return"
    /\ Len(Wheels(out)) >= 2
    /\ zoom_acc # 0

\* C4.  Zoom conservation: outside _apply, the contributions of all reports
\* minus the scroll amounts sent equal zoom_acc, and every scroll sent
\* carries +120 or -120.
C4_ZoomConservation ==
    /\ (~InApply => owed = zoom_acc)
    /\ \A i \in 1..Len(out) :
          out[i].dwFlags = "WHEEL" => out[i].mouseData \in {ONE_TICK, -ONE_TICK}

\* A report sent a negative tick and kept a residue
C4_Witness ==
    /\ tpc = "return"
    /\ Len(out) = 1
    /\ out[1].dwFlags = "WHEEL" /\ out[1].mouseData = -ONE_TICK
    /\ zoom_acc # 0
    /\ owed = zoom_acc

\* C5.  Dead-zone filter: when _apply reads a report, an axis with
\* |v| < DEAD_ZONE gives pan component 0 (x, z) and zoom 0 (y); an axis with
\* |v| = DEAD_ZONE is not filtered; and the zoom step of a report whose y is
\* below the dead zone leaves zoom_acc unchanged and sends nothing.
C5_DeadZone ==
    [][ /\ (tpc = "_apply" /\ tpc' = "pan") =>
             /\ (Abs(msg.x) < DEAD_ZONE => pan_x' = 0)
             /\ (Abs(msg.z) < DEAD_ZONE => pan_y' = 0)
             /\ (Abs(msg.y) < DEAD_ZONE => zoom' = 0)
             /\ (Abs(msg.x) = DEAD_ZONE /\ Abs(msg.x) * PAN_SCALE >= 100
                    => pan_x' # 0)
             /\ (Abs(msg.z) = DEAD_ZONE /\ Abs(msg.z) * PAN_SCALE >= 100
                    => pan_y' # 0)
             /\ (Abs(msg.y) = DEAD_ZONE /\ msg.y # 0
                    => zoom' = -(msg.y * ZOOM_SCALE))
        /\ (tpc = "zoom" /\ tpc' = "return" /\ Abs(msg.y) < dz) =>
             /\ zoom_acc' = zoom_acc
             /\ out' = out ]_vars

\* A report with x below the dead zone and y exactly on it, after the read
C5_Witness ==
    /\ tpc = "pan"
    /\ msg.x # 0 /\ Abs(msg.x) < dz /\ pan_x = 0
    /\ Abs(msg.y) = dz /\ zoom # 0

\* Python round() of the float n/100: nearest integer, ties to even
RoundOfHundredths(n) ==
    LET a == Abs(n)
        q == a \div 100
        r == a % 100
        m == IF r > 50 \/ (r = 50 /\ q % 2 = 1) THEN q + 1 ELSE q
    IN  IF n < 0 THEN -m ELSE m

\* r is n/100 with the fraction cut off (toward zero)
IsTruncation(r, n) ==
    IF n >= 0 THEN r >= 0 /\ r * 100 <= n /\ n < r * 100 + 100
    ELSE r <= 0 /\ r * 100 - 100 < n /\ n <= r * 100

\* C6 as stated.  For x and z that pass the dead-zone filter, pan_x is
\* round(x * pan_scale) and pan_y is round(z * pan_scale), and the move that
\* is sent carries exactly these two values.
C6_PanRounded ==
    [][ /\ (tpc = "_apply" /\ tpc' = "pan") =>
             /\ (Abs(msg.x) >= DEAD_ZONE
                    => pan_x' = RoundOfHundredths(msg.x * PAN_SCALE))
             /\ (Abs(msg.z) >= DEAD_ZONE
                    => pan_y' = RoundOfHundredths(msg.z * PAN_SCALE))
        /\ (tpc = "_move" /\ tpc' = "zoom") =>
             SentNow = <<Make("MOVE", pan_x, pan_y, 0)>> ]_vars

\* C6 as amended.  For x and z that pass the dead-zone filter, pan_x is
\* x * pan_scale and pan_y is z * pan_scale with the fraction cut off
\* (truncated toward zero, for positive and negative values), and the move
\* that is sent carries exactly these two values, so y never contributes.
C6_PanTruncated ==
    [][ /\ (tpc = "_apply" /\ tpc' = "pan") =>
             /\ (Abs(msg.x) >= DEAD_ZONE
                    => IsTruncation(pan_x', msg.x * PAN_SCALE))
             /\ (Abs(msg.z) >= DEAD_ZONE
                    => IsTruncation(pan_y', msg.z * PAN_SCALE))
        /\ (tpc = "_move" /\ tpc' = "zoom") =>
             SentNow = <<Make("MOVE", pan_x, pan_y, 0)>> ]_vars

\* x = -45 and z = 45 under pan_scale 0.08: -3.6 and 3.6 became -3 and 3,
\* and the move carrying them was sent
C6_Witness ==
    /\ tpc = "zoom"
    /\ msg.x = -45 /\ msg.z = 45 /\ msg.y # 0 /\ dz = 25
    /\ pan_x = -3 /\ pan_y = 3
    /\ out[Len(out)] = Make("MOVE", -3, 3, 0)

\* C7.  The pan step.  When _apply reaches its zoom step, what it has sent
\* for the report is: MIDDLEDOWN then MOVE(pan_x, pan_y) if a pan component is
\* non-zero and the button was not held; only MOVE(pan_x, pan_y) if non-zero
\* and held; exactly one MIDDLEUP if both are zero and held; nothing if both
\* are zero and not held; _mid_held is then true exactly when a pan
\* component is non-zero.  No MOVE with delta (0, 0) is ever sent.
C7_PanStep ==
    /\ tpc = "zoom" =>
         /\ out = IF pan_x # 0 \/ pan_y # 0
                  THEN (IF held0 THEN <<>> ELSE <<Make("MIDDLEDOWN", 0, 0, 0)>>)
                       \o <<Make("MOVE", pan_x, pan_y, 0)>>
                  ELSE (IF held0 THEN <<Make("MIDDLEUP", 0, 0, 0)>> ELSE <<>>)
         /\ mid_held <=> (pan_x # 0 \/ pan_y # 0)
    /\ \A i \in 1..Len(out) :
          out[i].dwFlags = "MOVE" => (out[i].dx # 0 \/ out[i].dy # 0)

\* The report (100, 0, 0) under the default settings with the button up:
\* MIDDLEDOWN, then MOVE(8, 0), and the button is held
C7_Witness ==
    /\ tpc = "zoom"
    /\ msg.x = 100 /\ msg.y = 0 /\ msg.z = 0 /\ dz = 25
    /\ ~held0 /\ mid_held
    /\ out = <<Make("MIDDLEDOWN", 0, 0, 0), Make("MOVE", 8, 0, 0)>>

\* What the k-th report of the scenario must do in its zoom step
ScenarioStep ==
    /\ streak \in 1..3 =>
         /\ zoom_acc' = zoom_acc + 3000
         /\ zoom_acc' = 3000 * streak
         /\ out' = <<>>
    /\ streak = 4 =>
         /\ zoom_acc + 3000 = TickH
         /\ zoom_acc' = 0
         /\ out' = <<Make("WHEEL", 0, 0, ONE_TICK)>>

\* C8 as stated.  From zoom_acc = 0 with dead_zone 25 and zoom_scale 0.15,
\* each report (0, -200, 0) adds 30; the first three send nothing at all,
\* the fourth reaches 120, sends exactly one WHEEL(+120) and nothing else,
\* and leaves zoom_acc at 0.
C8_Scenario ==
    [][ (tpc = "zoom" /\ tpc' = "return" /\ streak >= 1) => ScenarioStep ]_vars

\* C8 as amended: the same, for a scenario that starts with the drag button
\* not held.
C8_ScenarioNotHeld ==
    [][ (tpc = "zoom" /\ tpc' = "return" /\ streak >= 1 /\ ~streakHeld)
           => ScenarioStep ]_vars

\* The fourth report of the scenario has sent its single tick
C8_Witness ==
    /\ tpc = "return"
    /\ streak = 4 /\ ~streakHeld
    /\ acc0 = 9000 /\ zoom_acc = 0
    /\ out = <<Make("WHEEL", 0, 0, ONE_TICK)>>

\* C9.  The mode gate.  _wnd_proc, given a WM_INPUT while drawing_mode is
\* false, returns at once: nothing is sent and _mid_held and zoom_acc are
\* unchanged, up to and including the return to the loop; given a WM_INPUT
\* while drawing_mode is true it passes the report on to _on_raw_input.
C9_ModeGate ==
    [][ /\ (tpc = "DispatchMessageW" /\ msg.type = "WM_INPUT" /\ tpc' # tpc) =>
             IF drawing_mode
             THEN tpc' = "_on_raw_input"
             ELSE /\ tpc' = "return"
                  /\ out' = <<>>
                  /\ UNCHANGED <<mid_held, zoom_acc, lastBtn, owed, locals>>
        /\ (tpc = "return" /\ tpc' # tpc) =>
             /\ tpc' = "while"
             /\ SentNow = <<>>
             /\ UNCHANGED <<mid_held, zoom_acc, lastBtn, owed>> ]_vars

\* A report with a non-zero x was dropped while the button was held
C9_Witness ==
    /\ tpc = "return"
    /\ msg.type = "WM_INPUT" /\ buf.bRawData = Report(1, 100, 0, 0)
    /\ ~drawing_mode
    /\ dz = 0 /\ out = <<>>
    /\ mid_held /\ lastBtn = "down"

\* C10.  When the listener thread leaves its loop and ends, it has removed
\* the device registration, cleared its handle and, if the button was held,
\* released it: _mid_held is false once the thread has ended.
C10_ThreadReleasesOnExit ==
    [][ (tpc = "cleanup" /\ tpc' = "exited") =>
           /\ ~registered'
           /\ hwnd' = 0
           /\ ~mid_held' /\ lastBtn' # "down" ]_vars

\* C11.  On every path by which the listener thread ends, the window handle
\* it recorded is cleared and its raw-input registration is removed: once
\* the thread has ended, _hwnd is None and no registration remains.
C11_TornDownOnExit ==
    tpc = "exited" => (hwnd = 0 /\ ~registered)

\* The values of a signed 16-bit integer
I16 == -32768..32767

\* A well-formed HID raw input of reports of the minimum length 7 whose
\* first report is a translation report (id 1)
IsMinimalTranslation(b) ==
    /\ b.status = "ok" /\ b.dwType = RIM_TYPEHID /\ b.rawhid
    /\ b.dwSizeHid = 7 /\ b.dwCount >= 1
    /\ Len(b.bRawData) = 7 * b.dwCount
    /\ b.bRawData[1] = 1

\* C12.  Decoder round trip: a payload whose report has the minimum length
\* 7, id 1 and three signed 16-bit values encoded low byte first is decoded
\* to exactly those values, negative ones included, and _apply is called
\* with them.
C12_RoundTrip ==
    [][ (tpc = "_on_raw_input" /\ IsMinimalTranslation(buf)) =>
           /\ tpc' = "_apply"
           /\ msg'.type = "WM_INPUT"
           /\ {msg'.x, msg'.y, msg'.z} \subseteq I16
           /\ Report(1, msg'.x, msg'.y, msg'.z) = SubSeq(buf.bRawData, 1, 7)
      ]_vars

\* The bytes 01 00 80 FF FF FF 7F reached _apply as (-32768, -1, 32767)
C12_Witness ==
    /\ tpc = "_apply"
    /\ buf = HidInput(7, 1, <<1, 0, 128, 255, 255, 255, 127>>)
    /\ msg = InputMsg(-32768, -1, 32767)

\* A HID raw input whose buffer is shorter than it declares, or holds fewer
\* than 7 report bytes
IsTruncated(b) ==
    /\ b.status = "ok" /\ b.dwType = RIM_TYPEHID
    /\ \/ ~b.rawhid
       \/ Len(b.bRawData) < b.dwSizeHid * b.dwCount
       \/ Len(b.bRawData) < 7

\* C13.  Decoder truncation: a raw input whose buffer is shorter than the
\* length it declares (dwSizeHid * dwCount after the header), or shorter
\* than the 7-byte report, is ignored: _apply is not called and nothing
\* changes, also when the buffer still holds 7 or more report bytes.
C13_TruncatedIgnored ==
    [][ (tpc = "_on_raw_input" /\ IsTruncated(buf)) =>
           /\ tpc' = "return"
           /\ UNCHANGED <<msg, mid_held, zoom_acc, out, lastBtn, owed>> ]_vars

\* A raw input that is not of HID type
IsNotHid(b) == b.status = "ok" /\ b.dwType # RIM_TYPEHID

\* A HID raw input whose first report has an id other than 1
IsOtherId(b) ==
    /\ b.status = "ok" /\ b.dwType = RIM_TYPEHID /\ b.rawhid
    /\ Len(b.bRawData) >= 1
    /\ b.bRawData[1] # 1

\* C14.  A report whose id byte is not 1, whatever the bytes after it, and a
\* raw input that is not of HID type are ignored: _apply is not called,
\* nothing is sent and _mid_held and zoom_acc are unchanged.
C14_OtherReportsIgnored ==
    [][ (tpc = "_on_raw_input" /\ (IsNotHid(buf) \/ IsOtherId(buf))) =>
           /\ tpc' = "return"
           /\ UNCHANGED <<msg, mid_held, zoom_acc, out, lastBtn, owed>> ]_vars

\* A rotation report with non-zero axes was dropped while the button was
\* held and a residue was pending
C14_Witness ==
    /\ tpc = "return"
    /\ buf = HidInput(7, 1, Report(2, 100, -200, 45))
    /\ msg = InputMsg(0, 0, 0)
    /\ mid_held /\ zoom_acc = 3000 /\ out = <<>>

\* C15.  Termination after stop(): once stop() has cleared _running while
\* the listener thread is alive, the thread ends, whether it is still
\* setting up (no handle yet, so no WM_DESTROY is posted), inside _wnd_proc
\* or blocked in GetMessageW.
C15_StopTerminates ==
    (mpc = "stop_hwnd" /\ tpc \notin {"none", "exited"}) ~> (tpc = "exited")

\* stop() found no handle and posted nothing, the thread created its window
\* afterwards and left through the loop head
C15_Witness ==
    /\ tpc = "exited" /\ exitBy = "loop"
    /\ stopHeld # "no"
    /\ ~destroyPosted /\ ~quitPosted

\* A step of a stop() that was called on an idle listener
IdleStopStep ==
    \/ mpc = "idle" /\ mpc' = "stop_hwnd" /\ idle0'
    \/ idle0 /\ mpc # "idle" /\ mpc' # mpc

\* C16.  stop() on an idle listener (never started, or stopped before and
\* its thread ended) is a no-op: it sends nothing, finds no handle to post
\* WM_DESTROY to and leaves every field of the listener as it was.
C16_StopOnIdleNoOp ==
    [][ IdleStopStep =>
           /\ UNCHANGED <<prog, os, tpc, out, lastBtn, owed>>
           /\ (mpc = "stop_hwnd" => hwnd = 0) ]_vars

\* C17.  A failed RegisterClassW, CreateWindowExW or RegisterRawInputDevices
\* ends the thread at once, before the loop; from then until the next
\* start() no report is processed and nothing is sent, by the thread or by
\* a stop(), and a stop() finds the thread ended, so its join returns.
C17_SetupFailureInert ==
    [][ /\ exitBy' = "setup" => tpc' = "exited"
        /\ (exitBy = "setup" /\ exitBy' = "setup") =>
              UNCHANGED <<out, lastBtn, owed, mid_held, zoom_acc, locals>>
      ]_vars

\* r is the pan component of the axis value v under the settings in force
IsPanUnder(r, v, deadzone, scale) ==
    IF Abs(v) < deadzone THEN r = 0 ELSE IsTruncation(r, v * scale)

\* C18.  Settings pushed by the main thread while the listener runs are
\* observed: a report whose processing starts after apply_settings has
\* returned is filtered with the new DEAD_ZONE and scaled with the new
\* PAN_SCALE and ZOOM_SCALE, whichever settings were in force before.
C18_SettingsObserved ==
    [][ (tpc = "_apply" /\ tpc' = "pan") =>
           \E s \in SettingsSet :
              /\ s = [PAN_SCALE |-> PAN_SCALE, ZOOM_SCALE |-> ZOOM_SCALE,
                      DEAD_ZONE |-> DEAD_ZONE]
              /\ dz' = s.DEAD_ZONE
              /\ IsPanUnder(pan_x', msg.x, s.DEAD_ZONE, s.PAN_SCALE)
              /\ IsPanUnder(pan_y', msg.z, s.DEAD_ZONE, s.PAN_SCALE)
              /\ zoom' = Contribution(msg.y, s.DEAD_ZONE, s.ZOOM_SCALE) ]_vars

\* In a session that pressed the button and holds a residue, a report
\* (100, 100, 45) was read under the pushed settings (0.5, 1.5, 100): x and
\* y pass the new dead zone, z does not
C18_Witness ==
    /\ tpc = "pan"
    /\ DEAD_ZONE = 100 /\ PAN_SCALE = 50 /\ ZOOM_SCALE = 150
    /\ msg.x = 100 /\ msg.y = 100 /\ msg.z = 45
    /\ dz = 100 /\ pan_x = 50 /\ pan_y = 0 /\ zoom = -15000
    /\ held0 /\ acc0 = 3000

PanActions(px, py, held) ==
    IF px # 0 \/ py # 0
    THEN (IF held THEN <<>> ELSE <<Make("MIDDLEDOWN", 0, 0, 0)>>)
         \o <<Make("MOVE", px, py, 0)>>
    ELSE (IF held THEN <<Make("MIDDLEUP", 0, 0, 0)>> ELSE <<>>)

\* The scroll actions of a report: a function of zoom and zoom_acc, one
\* tick for every whole 120 in the sum, in its direction
ZoomActions(zm, acc) ==
    LET total == acc + zm
        n == Abs(total) \div TickH
        tick == IF total > 0 THEN ONE_TICK ELSE -ONE_TICK
    IN  IF zm = 0 THEN <<>> ELSE [i \in 1..n |-> Make("WHEEL", 0, 0, tick)]

\* C20.  Pan and zoom are evaluated independently in one step: what _apply
\* has sent when it returns is the pan actions, which x, z, the settings and
\* _mid_held determine, followed by the scroll actions, which y, the
\* settings and zoom_acc determine; a report can have both.
C20_PanThenZoom ==
    [][ /\ (tpc = "_apply" /\ tpc' = "pan") =>
             /\ IsPanUnder(pan_x', msg.x, DEAD_ZONE, PAN_SCALE)
             /\ IsPanUnder(pan_y', msg.z, DEAD_ZONE, PAN_SCALE)
             /\ zoom' = Contribution(msg.y, DEAD_ZONE, ZOOM_SCALE)
        /\ (tpc = "zoom" /\ tpc' = "return") =>
             out' = PanActions(pan_x, pan_y, held0) \o ZoomActions(zoom, acc0)
      ]_vars

\* One report pressed the button, moved the pointer and scrolled one tick
C20_Witness ==
    /\ tpc = "return"
    /\ out = <<Make("MIDDLEDOWN", 0, 0, 0), Make("MOVE", 8, 0, 0),
               Make("WHEEL", 0, 0, ONE_TICK)>>

\* C21.  Every start() begins a session with fresh state: the first report
\* that reaches _apply after a start(), a start() after a stop() on the same
\* listener included, finds _mid_held false and zoom_acc 0.
C21_FreshSession ==
    [][ (tpc = "_apply" /\ tpc' = "pan" /\ fresh) =>
           (~mid_held /\ zoom_acc = 0) ]_vars

\* stop() has returned although the listener thread is still alive: its
\* join gave up
StoppedAlive ==
    mpc = "idle" /\ stopHeld # "no" /\ tpc \notin {"none", "exited"}

\* C22.  No stuck button after a stop() whose join gave up: whenever stop()
\* has returned and the thread is still alive, the last button event sent
\* is not a MIDDLEDOWN (so none is sent afterwards either), and from the
\* call of stop() on no MIDDLEUP is sent unless the last button event was a
\* MIDDLEDOWN (no second release for one press).
C22_NoStuckButton ==
    [][ /\ StoppedAlive' => lastBtn' # "down"
        /\ (stopHeld # "no" /\ relSinceStop' > relSinceStop)
              => lastBtn = "down" ]_vars

\* C23.  Turning the gate off does not leave the button pressed: when a
\* report is delivered to _wnd_proc while drawing_mode is false, _mid_held
\* is true and the last button event sent is a MIDDLEDOWN, the handling of
\* that report sends the MIDDLEUP: the window procedure does not get to its
\* return with the button still pressed.
C23_GateOffReleases ==
    [][ ( /\ tpc = "DispatchMessageW" /\ msg.type = "WM_INPUT"
          /\ ~drawing_mode /\ mid_held /\ lastBtn = "down"
          /\ tpc' = "return" )
           => lastBtn' = "up" ]_vars

====
